---- MODULE Spec2Model ----
(***************************************************************************)
(* Model of gestor_librerias/core.py: main / VerificadorLibrerias.verificar *)
(* (check, install or upgrade one package and persist a record in a JSON   *)
(* file) and ListarLibrerias.exportar_a_json (inventory export).           *)
(*                                                                         *)
(* Python values are modelled as follows.                                  *)
(*  - a str is a sequence of one-character strings: "np" is <<"n","p">>;   *)
(*    a formatted message is the concatenation of its fragments, a literal *)
(*    fragment being kept as one element;                                  *)
(*  - None, where a str is expected, is the one-element sequence None;     *)
(*  - a dict is a sequence of <<key, value>> pairs in insertion order;     *)
(*  - a method is an operator from the world before the call (output file, *)
(*    installed distributions, clock, trace of external calls) to an       *)
(*    outcome: the exception raised (NoExc when it returns), the returned  *)
(*    value and the world after the call.                                  *)
(***************************************************************************)
EXTENDS Integers, Sequences, FiniteSets, TLC

VARIABLES archivo, dists, reloj, inventario, llamada, resultado

vars == <<archivo, dists, reloj, inventario, llamada, resultado>>

(* Bound: the clock (datetime.utcnow) is read at most MaxReloj times. *)
MaxReloj == 2

---------------------------------------------------------------------------
(* str *)

None == <<"<None>">>

Ascii ==
  << " ", "-", ".", "0", "1", "2", ":", "N", "P", "S", "Z", "_",
     "a", "b", "c", "d", "e", "i", "m", "n", "o", "p", "r", "s", "y", "z" >>

Ord(c) == CHOOSE i \in 1..Len(Ascii) : Ascii[i] = c

LowerChar(c) ==
  CASE c = "N" -> "n"
    [] c = "P" -> "p"
    [] c = "S" -> "s"
    [] c = "Z" -> "z"
    [] OTHER -> c

IsSpace(c) == c = " "

lower(s) == [i \in 1..Len(s) |-> LowerChar(s[i])]

RECURSIVE lstrip(_)
lstrip(s) ==
  IF s # <<>> /\ IsSpace(Head(s)) THEN lstrip(Tail(s)) ELSE s

RECURSIVE rstrip(_)
rstrip(s) ==
  IF s # <<>> /\ IsSpace(s[Len(s)]) THEN rstrip(SubSeq(s, 1, Len(s) - 1)) ELSE s

strip(s) == rstrip(lstrip(s))

replace(s, old, new) == [i \in 1..Len(s) |-> IF s[i] = old THEN new ELSE s[i]]

startswith(s, prefijo) ==
  Len(s) >= Len(prefijo) /\ SubSeq(s, 1, Len(prefijo)) = prefijo

(* s.split(":", 1)[1] for a string holding a colon: what follows the first one *)
RECURSIVE TrasDosPuntos(_)
TrasDosPuntos(s) ==
  IF Head(s) = ":" THEN Tail(s) ELSE TrasDosPuntos(Tail(s))

(* a < b, the order of Python's str: by code point, a proper prefix first *)
RECURSIVE StrLt(_, _)
StrLt(a, b) ==
  IF b = <<>> THEN FALSE
  ELSE IF a = <<>> THEN TRUE
  ELSE IF Head(a) = Head(b) THEN StrLt(Tail(a), Tail(b))
  ELSE Ord(Head(a)) < Ord(Head(b))

(* the truth value of an Optional[str]: neither None nor "" *)
Truthy(s) == s # None /\ s # <<>>

Desconocida == <<"d","e","s","c","o","n","o","c","i","d","a">>

---------------------------------------------------------------------------
(* dict: a sequence of <<key, value>> pairs in insertion order *)

DictKeys(d) == {d[i][1] : i \in 1..Len(d)}

DictGet(d, k) == d[CHOOSE i \in 1..Len(d) : d[i][1] = k][2]

(* d[k] = v: the value under an existing key is replaced in place, a new key
   is appended *)
DictSet(d, k, v) ==
  IF k \in DictKeys(d)
    THEN [i \in 1..Len(d) |-> IF d[i][1] = k THEN <<k, v>> ELSE d[i]]
    ELSE Append(d, <<k, v>>)

PyDict(pares) == [tipo |-> "dict", pares |-> pares]

PyList == [tipo |-> "list", pares |-> <<>>]

---------------------------------------------------------------------------
(* Enums, dataclasses, configuration *)

SOLO_VER == "solo_ver"

INSTALAR == "instalar"

INSTALAR_Y_ACTUALIZAR == "instalar_y_actualizar"

ModoOperacion == <<SOLO_VER, INSTALAR, INSTALAR_Y_ACTUALIZAR>>

NO_INSTALADA == "no_instalada"

INSTALADA == "instalada"

ACTUALIZADA == "actualizada"

ERROR == "error"

EstadoLibreria == {NO_INSTALADA, INSTALADA, ACTUALIZADA, ERROR}

ConfigModo(solo_verificar, actualizar_, descripcion) ==
  [solo_verificar |-> solo_verificar, actualizar |-> actualizar_,
   descripcion |-> descripcion]

CONFIG_MODOS ==
  [m \in {SOLO_VER, INSTALAR, INSTALAR_Y_ACTUALIZAR} |->
     CASE m = SOLO_VER -> ConfigModo(TRUE, FALSE, "Solo verifica")
       [] m = INSTALAR -> ConfigModo(FALSE, FALSE, "Instala, no actualiza")
       [] m = INSTALAR_Y_ACTUALIZAR -> ConfigModo(FALSE, TRUE, "Instala y actualiza")]

(* Exceptions: the class and str(e) *)
Exc(tipo, texto) == [tipo |-> tipo, texto |-> texto]

NoExc == Exc("", <<>>)

(* InfoLibreria(...): __post_init__ reads the clock when no timestamp is given;
   the outcome is the instance and the world with the clock advanced *)
InfoLibreria(w, libreria, estado, version_instalada, ultima_version, mensaje) ==
  [info |-> [libreria |-> libreria, estado |-> estado,
             version_instalada |-> version_instalada,
             ultima_version |-> ultima_version,
             mensaje |-> mensaje, timestamp |-> w.reloj],
   w |-> [w EXCEPT !.reloj = @ + 1]]

(* the value standing for "no InfoLibreria" in an outcome that raised *)
NoInfo ==
  [libreria |-> None, estado |-> "", version_instalada |-> None,
   ultima_version |-> None, mensaje |-> None, timestamp |-> 0]

to_dict(info) ==
  << <<"libreria", info.libreria>>, <<"estado", info.estado>>,
     <<"timestamp", info.timestamp>> >>
  \o (IF Truthy(info.version_instalada)
        THEN << <<"version_instalada", info.version_instalada>> >> ELSE <<>>)
  \o (IF Truthy(info.ultima_version)
        THEN << <<"ultima_version", info.ultima_version>> >> ELSE <<>>)
  \o (IF Truthy(info.mensaje)
        THEN << <<"mensaje", info.mensaje>> >> ELSE <<>>)

---------------------------------------------------------------------------
(* The world outside the process.

   A file is absent, or holds text: text that is no JSON ("no_json"), the
   text of a JSON array ("lista") or the text of a JSON object ("objeto",
   with its members in order).
   dists maps the Name of each installed distribution to its version.
   e is what the outside answers during one call: whether pip install exits
   0, whether pip show exits 0, and how the index request ends. *)

ArchivoAusente == [clase |-> "ausente", pares |-> <<>>]

ArchivoNoJSON == [clase |-> "no_json", pares |-> <<>>]

ArchivoLista == [clase |-> "lista", pares |-> <<>>]

ArchivoObjeto(pares) == [clase |-> "objeto", pares |-> pares]

V1 == <<"1", ".", "0">>

V2 == <<"2", ".", "0">>

Mundo(a, d, r) == [archivo |-> a, dists |-> d, reloj |-> r, traza |-> <<>>]

Traza(w, evento) == [w EXCEPT !.traza = Append(@, evento)]

(* json.loads on the text of a file *)
json_loads(texto) ==
  CASE texto.clase = "objeto" -> [exc |-> NoExc, val |-> PyDict(texto.pares)]
    [] texto.clase = "lista" -> [exc |-> NoExc, val |-> PyList]
    [] OTHER -> [exc |-> Exc("JSONDecodeError", <<"Expecting value">>),
                 val |-> PyList]

(* json.dumps of a dict or a list *)
json_dumps(contenido) ==
  IF contenido.tipo = "dict" THEN ArchivoObjeto(contenido.pares) ELSE ArchivoLista

---------------------------------------------------------------------------
(* ConsultorVersiones *)

Cadena_Version == <<"V", "e", "r", "s", "i", "o", "n", ":">>

(* the lines `pip show` prints for a distribution *)
SalidaPipShow(nombre, version) ==
  << <<"N", "a", "m", "e", ":", " ">> \o nombre,
     Cadena_Version \o <<" ">> \o version,
     <<"S", "u", "m", "m", "a", "r", "y", ":", " ">> >>

(* the name under which the installer finds an installed distribution *)
NombreDist(d, nombre) ==
  IF nombre \in DOMAIN d THEN nombre ELSE replace(nombre, "-", "_")

(* subprocess.check_output([python, -m, pip, show, nombre]) *)
pip_show(w, e, nombre) ==
  IF e.show /\ NombreDist(w.dists, nombre) \in DOMAIN w.dists
    THEN [exc |-> NoExc,
          ret |-> SalidaPipShow(NombreDist(w.dists, nombre),
                                w.dists[NombreDist(w.dists, nombre)])]
    ELSE [exc |-> Exc("CalledProcessError",
                      <<"Command 'pip show ">> \o nombre
                        \o <<"' returned non-zero exit status 1.">>),
          ret |-> <<>>]

(* for linea in resultado.splitlines(): if linea.startswith("Version:"): return ... *)
RECURSIVE PrimeraVersion(_)
PrimeraVersion(lineas) ==
  IF lineas = <<>> THEN Desconocida
  ELSE IF startswith(Head(lineas), Cadena_Version)
    THEN strip(TrasDosPuntos(Head(lineas)))
    ELSE PrimeraVersion(Tail(lineas))

(* try: ... except subprocess.CalledProcessError: pass; any other exception
   leaves the method *)
obtener_version_instalada(w, e, nombre) ==
  LET r == pip_show(w, e, nombre)
  IN IF r.exc = NoExc
       THEN [exc |-> NoExc, ret |-> PrimeraVersion(r.ret), w |-> Traza(w, "pip_show")]
     ELSE IF r.exc.tipo = "CalledProcessError"
       THEN [exc |-> NoExc, ret |-> Desconocida, w |-> Traza(w, "pip_show")]
     ELSE [exc |-> r.exc, ret |-> None, w |-> Traza(w, "pip_show")]

(* urllib.request.urlopen(url, timeout=5), json.load, data["info"]["version"] *)
consulta_indice(e, nombre) ==
  CASE e.indice = "ok" -> [exc |-> NoExc, ret |-> V2]
    [] e.indice = "URLError" ->
         [exc |-> Exc("URLError", <<"<urlopen error timed out>">>), ret |-> None]
    [] e.indice = "KeyError" -> [exc |-> Exc("KeyError", <<"'info'">>), ret |-> None]

(* a faulty variant: only the network error is caught, `except urllib.error.URLError` *)
obtener_ultima_version_solo_URLError(w, e, nombre) ==
  LET r == consulta_indice(e, nombre)
  IN IF r.exc = NoExc
       THEN [exc |-> NoExc, ret |-> r.ret, w |-> Traza(w, "indice")]
     ELSE IF r.exc.tipo = "URLError"
       THEN [exc |-> NoExc, ret |-> Desconocida, w |-> Traza(w, "indice")]
     ELSE [exc |-> r.exc, ret |-> None, w |-> Traza(w, "indice")]

(* try: ... except Exception: return "desconocida" *)
obtener_ultima_version(w, e, nombre) ==
  LET r == consulta_indice(e, nombre)
  IN IF r.exc = NoExc
       THEN [exc |-> NoExc, ret |-> r.ret, w |-> Traza(w, "indice")]
       ELSE [exc |-> NoExc, ret |-> Desconocida, w |-> Traza(w, "indice")]

---------------------------------------------------------------------------
(* GestorJSON *)

leer(a) ==
  IF a.clase # "ausente"
    THEN LET r == json_loads(a)
         IN IF r.exc.tipo = "JSONDecodeError" THEN PyDict(<<>>) ELSE r.val
    ELSE PyDict(<<>>)

guardar(contenido) == json_dumps(contenido)

(* a faulty variant: the file is rewritten from an empty dict instead of from self.leer() *)
actualizar_libreria_sin_leer(w, info) ==
  [exc |-> NoExc,
   w |-> Traza([w EXCEPT !.archivo =
                  guardar(PyDict(DictSet(<<>>, info.libreria, to_dict(info))))],
               "escribir")]

(* contenido = self.leer(); contenido[info.libreria] = info.to_dict();
   self.guardar(contenido).  The item assignment raises TypeError when
   contenido is a list. *)
actualizar_libreria(w, info) ==
  LET contenido == leer(w.archivo)
  IN IF contenido.tipo # "dict"
       THEN [exc |-> Exc("TypeError",
                         <<"list indices must be integers or slices, not str">>),
             w |-> w]
       ELSE [exc |-> NoExc,
             w |-> Traza([w EXCEPT !.archivo =
                            guardar(PyDict(DictSet(contenido.pares, info.libreria,
                                                   to_dict(info))))],
                         "escribir")]

---------------------------------------------------------------------------
(* InstaladorPip *)

esta_instalada(w, nombre) ==
  IF nombre \in DOMAIN w.dists THEN TRUE
  ELSE IF replace(nombre, "-", "_") \in DOMAIN w.dists THEN TRUE
  ELSE FALSE

ErrorPip(orden, nombre) ==
  Exc("CalledProcessError",
      <<"Command '">> \o <<orden>> \o nombre
        \o <<"' returned non-zero exit status 1.">>)

(* a faulty variant: a failed pip install is started a second time *)
instalar_con_reintento(w, e, nombre) ==
  IF e.pip
    THEN [exc |-> NoExc,
          w |-> Traza([w EXCEPT !.dists = (nombre :> V2) @@ @], "instalar")]
    ELSE [exc |-> ErrorPip("pip install ", nombre),
          w |-> Traza(Traza(w, "instalar"), "instalar")]

(* subprocess.check_call([python, -m, pip, install, nombre]) *)
instalar(w, e, nombre) ==
  IF e.pip
    THEN [exc |-> NoExc,
          w |-> Traza([w EXCEPT !.dists = (nombre :> V2) @@ @], "instalar")]
    ELSE [exc |-> ErrorPip("pip install ", nombre), w |-> Traza(w, "instalar")]

(* subprocess.check_call([python, -m, pip, install, --upgrade, nombre]) *)
actualizar(w, e, nombre) ==
  IF e.pip
    THEN [exc |-> NoExc,
          w |-> Traza([w EXCEPT !.dists = (NombreDist(@, nombre) :> V2) @@ @],
                      "actualizar")]
    ELSE [exc |-> ErrorPip("pip install --upgrade ", nombre),
          w |-> Traza(w, "actualizar")]

---------------------------------------------------------------------------
(* VerificadorLibrerias.  An outcome is the exception that leaves the method
   (NoExc when it returns), the returned (exito, info) and the world after. *)

Return(exito, info, w) == [exc |-> NoExc, exito |-> exito, info |-> info, w |-> w]

Raise(exc, w) == [exc |-> exc, exito |-> FALSE, info |-> NoInfo, w |-> w]

(* if guardar_json: self.gestor_json.actualizar_libreria(info) *)
persistir(w, info, guardar_json) ==
  IF guardar_json THEN actualizar_libreria(w, info) ELSE [exc |-> NoExc, w |-> w]

(* the end of a method, p being the outcome of persisting: the exception of
   the write leaves the method, otherwise `return exito, info` *)
Terminar(p, exito, info) ==
  IF p.exc # NoExc THEN Raise(p.exc, p.w) ELSE Return(exito, info, p.w)

(* c being the InfoLibreria just built:
   if guardar_json: self.gestor_json.actualizar_libreria(info); return exito, info *)
Registrar(c, guardar_json, exito) ==
  Terminar(persistir(c.w, c.info, guardar_json), exito, c.info)

(* uv being the outcome of obtener_ultima_version:
   info = InfoLibreria(...); if guardar_json: ...; return True, info *)
TrasUltimaVersion(version_instalada, uv, nombre, estado, guardar_json) ==
  IF uv.exc # NoExc THEN Raise(uv.exc, uv.w)
  ELSE Registrar(InfoLibreria(uv.w, nombre, estado, version_instalada, uv.ret, None),
                 guardar_json, TRUE)

(* vi being the outcome of obtener_version_instalada:
   ultima_version = self.consultor.obtener_ultima_version(nombre); ... *)
TrasVersionInstalada(vi, e, nombre, estado, guardar_json) ==
  IF vi.exc # NoExc THEN Raise(vi.exc, vi.w)
  ELSE TrasUltimaVersion(vi.ret, obtener_ultima_version(vi.w, e, nombre), nombre,
                         estado, guardar_json)

(* version_instalada = ...; ultima_version = ...; info = InfoLibreria(...);
   if guardar_json: ...; return True, info -- the block that ends both
   _verificar_solo and _verificar_e_instalar *)
ConsultarYRegistrar(w, e, nombre, estado, guardar_json) ==
  TrasVersionInstalada(obtener_version_instalada(w, e, nombre), e, nombre, estado,
                       guardar_json)

_verificar_solo(w, e, nombre, instalada, guardar_json) ==
  IF ~instalada
    THEN Registrar(InfoLibreria(w, nombre, NO_INSTALADA, None, None,
                                <<"La libreria '">> \o nombre
                                  \o <<"' no esta instalada.">>),
                   guardar_json, TRUE)
    ELSE ConsultarYRegistrar(w, e, nombre, INSTALADA, guardar_json)

(* paso being the outcome of the installer call, if one was made *)
TrasInstalador(paso, e, nombre, estado_final, guardar_json) ==
  IF paso.exc # NoExc THEN Raise(paso.exc, paso.w)
  ELSE ConsultarYRegistrar(paso.w, e, nombre, estado_final, guardar_json)

_verificar_e_instalar(w, e, nombre, instalada, actualizar_, guardar_json) ==
  TrasInstalador(IF instalada
                   THEN IF actualizar_ THEN actualizar(w, e, nombre)
                        ELSE [exc |-> NoExc, w |-> w]
                   ELSE instalar(w, e, nombre),
                 e, nombre,
                 IF instalada /\ actualizar_ THEN ACTUALIZADA ELSE INSTALADA,
                 guardar_json)

(* a faulty variant: the error record is persisted whatever the flag *)
_manejar_error_siempre_guarda(w, nombre, error, guardar_json) ==
  Registrar(InfoLibreria(w, nombre, ERROR, None, None, error.texto), TRUE, FALSE)

_manejar_error(w, nombre, error, guardar_json) ==
  Registrar(InfoLibreria(w, nombre, ERROR, None, None, error.texto),
            guardar_json, FALSE)

(* r being the outcome of the try block:
   except Exception as e: return self._manejar_error(nombre_libreria, e, guardar_json) *)
Capturar(r, nombre_libreria, guardar_json) ==
  IF r.exc # NoExc THEN _manejar_error(r.w, nombre_libreria, r.exc, guardar_json)
  ELSE r

verificar(w, e, nombre_libreria, modo, guardar_json) ==
  Capturar(IF modo.solo_verificar
             THEN _verificar_solo(w, e, nombre_libreria,
                                  esta_instalada(w, nombre_libreria), guardar_json)
             ELSE _verificar_e_instalar(w, e, nombre_libreria,
                                        esta_instalada(w, nombre_libreria),
                                        modo.actualizar, guardar_json),
           nombre_libreria, guardar_json)

---------------------------------------------------------------------------
(* Validador.  An argument of main is a Python value of some type: a str
   (field s), a bool (field b) or None. *)

PyStr(s) == [tipo |-> "str", s |-> s, b |-> FALSE]

PyBool(b) == [tipo |-> "bool", s |-> <<>>, b |-> b]

PyNone == [tipo |-> "NoneType", s |-> <<>>, b |-> FALSE]

validar_nombre_libreria(nombre) ==
  IF nombre.tipo # "str" \/ strip(nombre.s) = <<>>
    THEN [exc |-> Exc("ValueError",
                      <<"Se debe proporcionar un nombre de libreria valido.">>),
          ret |-> <<>>]
    ELSE [exc |-> NoExc, ret |-> strip(nombre.s)]

parsear_bool(valor) ==
  IF valor.tipo = "bool" THEN [exc |-> NoExc, ret |-> valor.b]
  ELSE IF valor.tipo # "str"
    THEN [exc |-> Exc("ValueError",
                      <<"guardar_json debe ser exactamente 'si' o 'no'.">>),
          ret |-> FALSE]
  ELSE LET valor_normalizado == lower(strip(valor.s))
       IN IF valor_normalizado \notin {<<"s", "i">>, <<"n", "o">>}
            THEN [exc |-> Exc("ValueError",
                              <<"Valor invalido: '">> \o valor.s
                                \o <<"'. Debe ser exactamente 'si' o 'no'.">>),
                  ret |-> FALSE]
            ELSE [exc |-> NoExc, ret |-> valor_normalizado = <<"s", "i">>]

(* a faulty variant: an unknown option falls back to the default mode *)
obtener_modo_por_defecto(opcion) ==
  IF \E i \in 1..Len(ModoOperacion) : ModoOperacion[i] = opcion
    THEN [exc |-> NoExc, ret |-> CONFIG_MODOS[opcion]]
    ELSE [exc |-> NoExc, ret |-> CONFIG_MODOS[SOLO_VER]]

(* ModoOperacion(opcion) looks the value up as it is; the message of the
   ValueError holds opcion and the list of the enum's values *)
obtener_modo(opcion) ==
  IF \E i \in 1..Len(ModoOperacion) : ModoOperacion[i] = opcion
    THEN [exc |-> NoExc, ret |-> CONFIG_MODOS[opcion]]
    ELSE [exc |-> Exc("ValueError",
                      <<"Opcion invalida: '", opcion, "'. Debe ser una de: ">>
                        \o ModoOperacion),
          ret |-> ConfigModo(FALSE, FALSE, "")]

---------------------------------------------------------------------------
(* main.  The outcome also tells whether verificar was called and what it
   gave (v), which main itself does not return. *)

NoVerificado == Raise(NoExc, Mundo(ArchivoAusente, <<>>, 0))

Fallo(error, w, llamado, v) ==
  [exc |-> Exc("RuntimeError", <<"Fallo en la ejecucion: ">> \o error.texto),
   w |-> w, llamado |-> llamado, v |-> v]

(* v being the outcome of verificar: an exception that left it, or
   `if not exito: raise RuntimeError(...)`, is caught and raised again *)
Informe(nombre_libreria, v) ==
  IF v.exc # NoExc THEN Fallo(v.exc, v.w, TRUE, v)
  ELSE IF ~v.exito
    THEN Fallo(Exc("RuntimeError",
                   <<"No se pudo completar la operacion sobre '">> \o nombre_libreria
                     \o <<"'. Detalle: ">> \o v.info.mensaje),
               v.w, TRUE, v)
  ELSE [exc |-> NoExc, w |-> v.w, llamado |-> TRUE, v |-> v]

(* m being the outcome of Validador.obtener_modo *)
TrasModo(nombre_libreria, guardar_json_bool, m, w, e) ==
  IF m.exc # NoExc THEN Fallo(m.exc, w, FALSE, NoVerificado)
  ELSE Informe(nombre_libreria,
               verificar(w, e, nombre_libreria, m.ret, guardar_json_bool))

(* g being the outcome of Validador.parsear_bool *)
TrasBandera(nombre_libreria, g, w, e, opcion) ==
  IF g.exc # NoExc THEN Fallo(g.exc, w, FALSE, NoVerificado)
  ELSE TrasModo(nombre_libreria, g.ret, obtener_modo(opcion), w, e)

(* n being the outcome of Validador.validar_nombre_libreria *)
TrasNombre(n, w, e, opcion, guardar_json) ==
  IF n.exc # NoExc THEN Fallo(n.exc, w, FALSE, NoVerificado)
  ELSE TrasBandera(n.ret, parsear_bool(guardar_json), w, e, opcion)

main(w, e, libreria_a_verificar, opcion, guardar_json) ==
  TrasNombre(validar_nombre_libreria(libreria_a_verificar), w, e, opcion, guardar_json)

---------------------------------------------------------------------------
(* ListarLibrerias *)

(* a faulty variant: the key is the name as it is, key=lambda x: x.metadata['Name'] *)
ClaveOrden_sin_lower(nombre) == nombre

(* key=lambda x: x.metadata['Name'].lower() *)
ClaveOrden(nombre) == lower(nombre)

(* sorted(iterable, key=...): stable, so an element goes after the elements
   whose key is not greater *)
RECURSIVE Insertar(_, _)
Insertar(ordenada, x) ==
  IF ordenada = <<>> THEN <<x>>
  ELSE IF StrLt(ClaveOrden(x), ClaveOrden(Head(ordenada))) THEN <<x>> \o ordenada
  ELSE <<Head(ordenada)>> \o Insertar(Tail(ordenada), x)

RECURSIVE sorted(_)
sorted(s) ==
  IF s = <<>> THEN <<>>
  ELSE Insertar(sorted(SubSeq(s, 1, Len(s) - 1)), s[Len(s)])

(* orden: the order in which importlib.metadata.distributions() yields the
   installed distributions *)
obtener_todas(d, orden) ==
  LET ordenadas == sorted(orden)
  IN [i \in 1..Len(ordenadas) |->
        [nombre |-> ordenadas[i], version |-> d[ordenadas[i]]]]

(* the file written at nombre_archivo, and the clock read for fecha_escaneo *)
exportar_a_json(d, r, orden) ==
  LET datos == << <<"fecha_escaneo", r>>, <<"total_librerias", 0>>,
                  <<"librerias", obtener_todas(d, orden)>> >>
      datos2 == DictSet(datos, "total_librerias", Len(DictGet(datos, "librerias")))
  IN guardar(PyDict(datos2))

---------------------------------------------------------------------------
(* The calls made to the program.  One run of the program is one call of
   main or one inventory export; llamada and resultado hold the arguments,
   the answers of the outside and the outcome of the run in progress, and
   Salir ends the run. *)

a_b == <<"a", "_", "b">>

Np == <<"N", "p">>

(* the distributions the environment may hold at the start *)
Distribuciones == {a_b, Np}

(* values passed as libreria_a_verificar *)
Nombres == {PyNone, PyStr(<<" ", " ">>), PyStr(<<" ", "N", "p", " ">>),
            PyStr(<<"a", "-", "b">>)}

(* values passed as opcion *)
Opciones == {SOLO_VER, INSTALAR, INSTALAR_Y_ACTUALIZAR, "SOLO_VER"}

(* values passed as guardar_json *)
Banderas == {PyBool(TRUE), PyBool(FALSE), PyNone, PyStr(<<" ", "S", "i", " ">>),
             PyStr(<<"y", "e", "s">>)}

(* what the outside may answer during a call *)
Entornos == [pip : BOOLEAN, show : BOOLEAN, indice : {"ok", "URLError", "KeyError"}]

SinEntorno == [pip |-> TRUE, show |-> TRUE, indice |-> "ok"]

(* a call that validation rejects asks the outside nothing: one answer
   stands for all of them *)
EntornosDe(libreria, opcion, g) ==
  IF validar_nombre_libreria(libreria).exc = NoExc /\ parsear_bool(g).exc = NoExc
     /\ obtener_modo(opcion).exc = NoExc
    THEN Entornos ELSE {SinEntorno}

(* the sequences that list each element of S once *)
RECURSIVE Ordenes(_)
Ordenes(S) ==
  IF S = {} THEN {<<>>}
  ELSE UNION {{<<x>> \o o : o \in Ordenes(S \ {x})} : x \in S}

Llamada(op, libreria, opcion, guardar_json, e) ==
  [op |-> op, libreria |-> libreria, opcion |-> opcion, guardar_json |-> guardar_json,
   e |-> e, archivo |-> archivo, dists |-> dists, reloj |-> reloj]

NoLlamada == Llamada("", PyNone, "", PyNone, SinEntorno)

Resultado(exc, llamado, v) ==
  [exc |-> exc, llamado |-> llamado, v_exc |-> v.exc, exito |-> v.exito,
   info |-> v.info, traza |-> v.w.traza]

NoResultado == Resultado(NoExc, FALSE, NoVerificado)

(* the record an earlier run left in the output file for another package *)
RegistroPrevio ==
  << <<"libreria", <<"z">>>>, <<"estado", NO_INSTALADA>>, <<"timestamp", 0>>,
     <<"mensaje", <<"La libreria '", "z", "' no esta instalada.">>>> >>

Init ==
  /\ archivo \in {ArchivoAusente, ArchivoNoJSON, ArchivoLista, ArchivoObjeto(<<>>),
                  ArchivoObjeto(<< <<(<<"z">>), RegistroPrevio>> >>)}
  /\ dists \in {[n \in S |-> V1] : S \in SUBSET Distribuciones}
  /\ reloj = 0
  /\ inventario = ArchivoAusente
  /\ llamada = NoLlamada
  /\ resultado = NoResultado

(* the run of main that ends with outcome r *)
Efecto(r, libreria, opcion, g, e) ==
  /\ archivo' = r.w.archivo
  /\ dists' = r.w.dists
  /\ reloj' = r.w.reloj
  /\ llamada' = Llamada("main", libreria, opcion, g, e)
  /\ resultado' = Resultado(r.exc, r.llamado, r.v)

(* main(libreria_a_verificar, opcion, guardar_json, archivo_json) *)
Main ==
  /\ llamada.op = ""
  /\ reloj < MaxReloj
  /\ \E libreria \in Nombres, opcion \in Opciones, g \in Banderas :
       \E e \in EntornosDe(libreria, opcion, g) :
         Efecto(main(Mundo(archivo, dists, reloj), e, libreria, opcion, g),
                libreria, opcion, g, e)
  /\ UNCHANGED inventario

(* ListarLibrerias.exportar_a_json(gestor_json, nombre_archivo) *)
ExportarAJson ==
  /\ llamada.op = ""
  /\ reloj < MaxReloj
  /\ \E orden \in Ordenes(DOMAIN dists) :
       inventario' = exportar_a_json(dists, reloj, orden)
  /\ reloj' = reloj + 1
  /\ llamada' = Llamada("exportar_a_json", PyNone, "", PyNone, SinEntorno)
  /\ UNCHANGED <<archivo, dists, resultado>>

(* the run ends; the next one starts from the files and the environment it left *)
Salir ==
  /\ llamada.op # ""
  /\ llamada' = [NoLlamada EXCEPT !.archivo = archivo, !.dists = dists,
                                  !.reloj = reloj]
  /\ resultado' = NoResultado
  /\ UNCHANGED <<archivo, dists, reloj, inventario>>

Next == Main \/ Salir

Spec == Init /\ [][Next]_vars

(* The inventory export, with distributions installed and removed from outside
   between the runs *)
Otras == {<<"a", "-", "b">>, <<"n", "p">>}

InitInventario ==
  /\ archivo = ArchivoAusente
  /\ dists \in {[n \in S |-> V1] : S \in SUBSET (Distribuciones \cup Otras)}
  /\ reloj = 0
  /\ inventario = ArchivoAusente
  /\ llamada = NoLlamada
  /\ resultado = NoResultado

(* pip install / pip uninstall run by someone else *)
PipExterno ==
  /\ llamada.op = ""
  /\ \E n \in Distribuciones \cup Otras :
       dists' = IF n \in DOMAIN dists
                  THEN [m \in DOMAIN dists \ {n} |-> dists[m]]
                  ELSE (n :> V2) @@ dists
  /\ llamada' = [llamada EXCEPT !.dists = dists']
  /\ UNCHANGED <<archivo, reloj, inventario, resultado>>

NextInventario == ExportarAJson \/ PipExterno \/ Salir

SpecInventario == InitInventario /\ [][NextInventario]_vars

---------------------------------------------------------------------------
(* What a state tells about the run in progress *)

(* main was called and has ended *)
Hecha == llamada.op = "main"

(* ... and it called verificar *)
Verificado == Hecha /\ resultado.llamado

(* the arguments verificar got *)
Nombre == validar_nombre_libreria(llamada.libreria).ret

Modo == obtener_modo(llamada.opcion).ret

Guardar == parsear_bool(llamada.guardar_json).ret

(* the world the run started in *)
Antes == Mundo(llamada.archivo, llamada.dists, llamada.reloj)

(* the package was present when the run started *)
Estaba ==
  Nombre \in DOMAIN llamada.dists \/ replace(Nombre, "-", "_") \in DOMAIN llamada.dists

(* verificar returned: no exception left it *)
Devolvio == Verificado /\ resultado.v_exc = NoExc

Ocurre(evento) == \E i \in 1..Len(resultado.traza) : resultado.traza[i] = evento

Veces(evento) == Cardinality({i \in 1..Len(resultado.traza) : resultado.traza[i] = evento})

(* the output file holds, under the package's name, the record verificar returned *)
Escrito ==
  /\ archivo.clase = "objeto"
  /\ Nombre \in DictKeys(archivo.pares)
  /\ DictGet(archivo.pares, Nombre) = to_dict(resultado.info)

SinVersiones ==
  resultado.info.version_instalada = None /\ resultado.info.ultima_version = None

ConVersiones ==
  Truthy(resultado.info.version_instalada) /\ Truthy(resultado.info.ultima_version)

---------------------------------------------------------------------------
(* C1: in mode solo_ver, verificar returns success with estado no_instalada
   and no version field when the package is absent, and success with estado
   instalada and both version fields (a version or 'desconocida') when it is
   present. *)
C1_SoloVer ==
  (Verificado /\ llamada.opcion = SOLO_VER) =>
     /\ Devolvio
     /\ resultado.exito
     /\ ~Estaba => (resultado.info.estado = NO_INSTALADA /\ SinVersiones)
     /\ Estaba => (resultado.info.estado = INSTALADA /\ ConVersiones)

(* C2: in mode instalar, verificar on an absent package calls instalar and,
   when that call succeeds, returns estado instalada; on a present package it
   calls neither instalar nor actualizar and returns estado instalada. *)
C2_Instalar ==
  (Verificado /\ llamada.opcion = INSTALAR) =>
     /\ ~Estaba => /\ Ocurre("instalar")
                   /\ llamada.e.pip => (Devolvio /\ resultado.info.estado = INSTALADA)
     /\ Estaba => /\ ~Ocurre("instalar") /\ ~Ocurre("actualizar")
                  /\ Devolvio /\ resultado.info.estado = INSTALADA

(* C3: in mode instalar_y_actualizar, verificar on a present package calls
   actualizar and, when it succeeds, returns estado actualizada; on an absent
   package it calls instalar, not actualizar, and returns estado instalada. *)
C3_InstalarYActualizar ==
  (Verificado /\ llamada.opcion = INSTALAR_Y_ACTUALIZAR) =>
     /\ Estaba => /\ Ocurre("actualizar")
                  /\ llamada.e.pip => (Devolvio /\ resultado.info.estado = ACTUALIZADA)
     /\ ~Estaba => /\ Ocurre("instalar") /\ ~Ocurre("actualizar")
                   /\ llamada.e.pip => (Devolvio /\ resultado.info.estado = INSTALADA)


(* C4: a persisted check leaves at most one entry per package name in the
   output file: the entry of the checked package is the record just written,
   stored under the record's own 'libreria'; a name that had an entry keeps
   the key set as it was; the entries under the other names are unchanged. *)
C4_UnaEntradaPorNombre ==
  (Verificado /\ Ocurre("escribir")) =>
     LET antes == leer(llamada.archivo).pares
         ahora == archivo.pares
     IN /\ archivo.clase = "objeto"
        /\ \A i, j \in 1..Len(ahora) : ahora[i][1] = ahora[j][1] => i = j
        /\ DictKeys(ahora) = DictKeys(antes) \cup {Nombre}
        /\ Nombre \in DictKeys(antes) => Len(ahora) = Len(antes)
        /\ DictGet(ahora, Nombre) = to_dict(resultado.info)
        /\ DictGet(DictGet(ahora, Nombre), "libreria") = Nombre
        /\ \A k \in DictKeys(antes) \ {Nombre} : DictGet(ahora, k) = DictGet(antes, k)

(* C4 witness: a check was persisted for a name that already had an entry,
   beside the entry of another name, and the entry changed *)
C4_Reemplazo ==
  /\ Verificado /\ Ocurre("escribir")
  /\ Nombre \in DictKeys(leer(llamada.archivo).pares)
  /\ Len(archivo.pares) > 1
  /\ DictGet(leer(llamada.archivo).pares, Nombre) # DictGet(archivo.pares, Nombre)

NombreInvalido ==
  llamada.libreria.tipo # "str" \/ strip(llamada.libreria.s) = <<>>

OpcionInvalida == llamada.opcion \notin {SOLO_VER, INSTALAR, INSTALAR_Y_ACTUALIZAR}

(* the flag is a string other than 'si' / 'no', compared trimmed and in lower case *)
BanderaInvalida ==
  /\ llamada.guardar_json.tipo = "str"
  /\ lower(strip(llamada.guardar_json.s)) \notin {<<"s", "i">>, <<"n", "o">>}

(* the flag is not a value main accepts: neither a bool nor 'si' / 'no' *)
BanderaRechazada ==
  /\ llamada.guardar_json.tipo # "bool"
  /\ \/ llamada.guardar_json.tipo # "str"
     \/ lower(strip(llamada.guardar_json.s)) \notin {<<"s", "i">>, <<"n", "o">>}

(* main raised and did nothing else: verificar was not called, so neither the
   installer nor the index was asked, and the file and the installed
   distributions are as they were *)
SoloLanzo ==
  /\ resultado.exc # NoExc
  /\ ~resultado.llamado
  /\ resultado.traza = <<>>
  /\ archivo = llamada.archivo
  /\ dists = llamada.dists

(* the message of the error main raised lists the three mode values *)
ListaModos ==
  \A i \in 1..Len(ModoOperacion) :
     \E j \in 1..Len(resultado.exc.texto) : resultado.exc.texto[j] = ModoOperacion[i]

(* C5 as stated: main raises without a side effect on a bad name, a bad mode
   or a bad flag string, and for an invalid mode string the message lists the
   valid modes. *)
C5_Original ==
  Hecha =>
     /\ (NombreInvalido \/ OpcionInvalida \/ BanderaInvalida) => SoloLanzo
     /\ OpcionInvalida => ListaModos

(* C5 amended: main raises without a side effect on a bad name, a bad mode or
   a bad flag string; for an invalid mode string the message lists the valid
   modes when the name and the flag are accepted (the name and the flag are
   validated before the mode, and the first error is the one raised). *)
C5_EntradaInvalida ==
  Hecha =>
     /\ (NombreInvalido \/ OpcionInvalida \/ BanderaInvalida) => SoloLanzo
     /\ (OpcionInvalida /\ ~NombreInvalido /\ ~BanderaRechazada) => ListaModos

(* C5 witness: main rejected an invalid mode string, the name and the flag
   being valid *)
C5_ModoRechazado ==
  /\ Hecha /\ OpcionInvalida /\ ~NombreInvalido /\ ~BanderaRechazada
  /\ SoloLanzo /\ ListaModos

(* the installer was started and exited non-zero *)
FalloInstalador ==
  /\ Verificado /\ ~llamada.e.pip
  /\ Ocurre("instalar") \/ Ocurre("actualizar")

(* C6: a failure inside verificar becomes a result: verificar does not raise;
   on a failed installer call it returns success false with an error record
   holding the error's text and no version, written to the file exactly when
   the flag is true, and main raises; success is false exactly when the
   estado is error. *)
C6_ErrorComoResultado ==
  Verificado =>
     /\ Devolvio
     /\ FalloInstalador =>
          /\ ~resultado.exito
          /\ resultado.info.estado = ERROR
          /\ resultado.info.mensaje =
               ErrorPip(IF Ocurre("instalar") THEN "pip install "
                        ELSE "pip install --upgrade ", Nombre).texto
          /\ SinVersiones
          /\ Guardar => Escrito
          /\ ~Guardar => archivo = llamada.archivo
          /\ resultado.exc # NoExc
     /\ ~resultado.exito <=> resultado.info.estado = ERROR

(* C7: the outcome of the index lookup does not decide the check: with any
   other answer of the index, verificar ends the same way, with the same
   success flag and estado; and a record made after a failed lookup holds
   'desconocida' as ultima_version. *)
C7_IndiceNoFalla ==
  Verificado =>
     /\ \A i \in {"ok", "URLError", "KeyError"} :
           LET otra == verificar(Antes, [llamada.e EXCEPT !.indice = i],
                                 Nombre, Modo, Guardar)
           IN /\ otra.exc = resultado.v_exc
              /\ otra.exito = resultado.exito
              /\ otra.info.estado = resultado.info.estado
     /\ (Devolvio /\ Ocurre("indice") /\ llamada.e.indice # "ok") =>
           /\ resultado.exito
           /\ resultado.info.ultima_version = Desconocida

(* C7 witness: the lookup was made and failed, and the check succeeded *)
C7_ConsultaFallida ==
  /\ Devolvio /\ Ocurre("indice") /\ llamada.e.indice = "KeyError"
  /\ resultado.exito
  /\ resultado.info.ultima_version = Desconocida

(* the output file was absent or did not hold a JSON object when the run started *)
ArchivoAusenteOCorrupto == llamada.archivo.clase \in {"ausente", "no_json", "lista"}

(* C8: persisting over an absent or corrupt file completes without raising
   and leaves a JSON object holding exactly the entry of the checked package. *)
C8_ArchivoCorrupto ==
  (Verificado /\ Guardar /\ ArchivoAusenteOCorrupto) =>
     /\ Devolvio
     /\ archivo = ArchivoObjeto(<< <<Nombre, to_dict(resultado.info)>> >>)

(* C10: with the persist flag false, verificar leaves the output file as it
   was and never writes it. *)
C10_SinGuardar ==
  (Verificado /\ ~Guardar) => (archivo = llamada.archivo /\ ~Ocurre("escribir"))

(* C10 witness: the installer failed in a call with the flag false, and the
   error record was returned without a write *)
C10_ErrorSinGuardar ==
  /\ Devolvio /\ ~Guardar /\ FalloInstalador
  /\ resultado.info.estado = ERROR
  /\ archivo = llamada.archivo

---------------------------------------------------------------------------
(* C9: every inventory written by exportar_a_json has total_librerias equal
   to the length of librerias, and librerias in non-decreasing order of the
   lower-case name. *)
C9_Inventario ==
  inventario.clase = "objeto" =>
     LET librerias == DictGet(inventario.pares, "librerias")
     IN /\ DictGet(inventario.pares, "total_librerias") = Len(librerias)
        /\ \A i, j \in 1..Len(librerias) :
              i < j => ~StrLt(lower(librerias[j].nombre), lower(librerias[i].nombre))

(* C9 witness: an inventory of three distributions in which a name starting
   with a capital follows a lower-case one *)
C9_TresDistribuciones ==
  /\ inventario.clase = "objeto"
  /\ DictGet(inventario.pares, "total_librerias") >= 3
  /\ Len(DictGet(inventario.pares, "librerias")) >= 3
  /\ \E i, j \in 1..Len(DictGet(inventario.pares, "librerias")) :
        /\ i < j
        /\ DictGet(inventario.pares, "librerias")[i].nombre = a_b
        /\ DictGet(inventario.pares, "librerias")[j].nombre = Np

---------------------------------------------------------------------------
(* the installer subprocess was started, as an install or as an upgrade *)
InstaladorIniciado == Ocurre("instalar") \/ Ocurre("actualizar")

(* C11: within one call to verificar the installer subprocess (install or
   upgrade) is started at most once in total and the index is queried at most
   once, whether or not they fail; in mode solo_ver the installer is never
   started; and a record of estado instalada or actualizada that follows an
   install or upgrade is written only after that installer call has returned
   successfully. *)
C11_SinReintento ==
  Verificado =>
     /\ Veces("instalar") + Veces("actualizar") <= 1
     /\ Veces("indice") <= 1
     /\ (llamada.opcion = SOLO_VER => ~InstaladorIniciado)
     /\ \A i \in 1..Len(resultado.traza) :
           ( /\ resultado.traza[i] = "escribir"
             /\ resultado.info.estado \in {INSTALADA, ACTUALIZADA}
             /\ InstaladorIniciado )
           => /\ llamada.e.pip
              /\ \E j \in 1..(i - 1) :
                    resultado.traza[j] \in {"instalar", "actualizar"}

(* C11 witness: the installer failed, having been started once, and nothing
   was queried or retried after it *)
C11_FalloSinReintento ==
  /\ FalloInstalador
  /\ Veces("instalar") + Veces("actualizar") = 1
  /\ ~Ocurre("indice")
  /\ resultado.info.estado = ERROR

(* an install that succeeded, followed by one index query and the write of
   the success record *)
C11_ExitoTrasInstalar ==
  /\ Verificado /\ llamada.e.pip /\ Ocurre("instalar")
  /\ Veces("indice") = 1
  /\ resultado.info.estado = INSTALADA
  /\ Ocurre("escribir") /\ Escrito

====
